---- MODULE Spec2Model ----
(***************************************************************************)
(* A model of the light-curve cleaning driver (src/test.py) and of the     *)
(* cut / averaging engine it drives (module lightcurve, described in       *)
(* spec.md sections 3 and 4).                                               *)
(*                                                                         *)
(* Specifications:                                                         *)
(*   Spec        the cleaning driver: __main__, parse_config_cuts,         *)
(*               CleanLoop.loop and CleanLoop.clean_lcs                     *)
(*   SpecFlags   CutList.check_for_flag_duplicates on arbitrary CutLists   *)
(*   SpecCut     the Point Evaluator and the Control-Statistics Evaluator  *)
(*   SpecAvg     the Bad-Day Averager (one bin)                            *)
(*   SpecAvgLive SpecAvg, the clipping loop running to completion          *)
(*   SpecScrape  AlertScraper.scrape called repeatedly                     *)
(*               (src/Pipeline/fetch_alerts.py)                            *)
(*   SpecPipe    one run of the pipeline's main() (src/Pipeline/main.py)   *)
(*   SpecQuery   Atclean_Query.query (src/Pipeline/atlas_query.py)         *)
(***************************************************************************)
EXTENDS Integers, Sequences, FiniteSets, TLC

VARIABLES
    \* ---- the cleaning driver (src/test.py) ----
    args,        \* the parsed command line
    config,      \* the loaded configuration file
    pc,          \* position of the driver
    err,         \* the exception that ended the run, "" if none
    cut_list,    \* the CutList returned by parse_config_cuts
    tns_i,       \* index of the transient of CleanLoop.loop's outer for
    filt_i,      \* index of the filter of CleanLoop.loop's inner for
    sn,          \* self.sn: the Measurements of the unit being cleaned
    stages,      \* the stages the current unit has entered, in order
    saved,       \* the (transient, filter) units whose output was saved
    readme,      \* the transients whose README.md was opened
    \* ---- CutList.check_for_flag_duplicates on its own ----
    fl_flags,    \* the flags of the member cuts of a CutList, in order
    fl_result,   \* whether the check was called, and the (bool, duplicates) returned
    \* ---- point cuts and the controls cut on their own ----
    pe_lc,       \* a light curve: a sequence of Measurements
    pe_ctl,      \* the control statistics of the epoch of each Measurement
    pe_log,      \* the cuts applied so far, each with the flag before and after
    \* ---- the Bad-Day Averager on one bin ----
    av_cfg,      \* thresholds and flags of the bad-day cut
    av_bin,      \* the points selected into the bin
    av_keep,     \* indices of the points the clipping still retains
    av_iter,     \* clipping iterations done
    av_pc,       \* "clip", "stats", "emitted" or "idle"
    av_out,      \* the emitted AveragedBin, or "none"
    \* ---- AlertScraper (src/Pipeline/fetch_alerts.py) ----
    sc_last_etag, \* self.last_etag
    sc_last_hash, \* self.last_hash
    sc_page,     \* the page as the server holds it: its ETag header and its body
    sc_net,      \* whether the HEAD request and the GET of scrape() succeed in this call
    sc_csv,      \* the content of alert_data.csv, None if the file does not exist
    sc_saved,    \* whether alert data was ever saved, and the page's ETag at the last save
    sc_pc,       \* position inside scrape(): "ready", "head", "hash" or "get"
    sc_err,      \* the exception that ended the last scrape(), "" if none
    sc_calls,    \* number of scrape() calls made
    sc_call,     \* the current call: sc_saved at its entry, and whether it saved
    \* ---- the pipeline's main() (src/Pipeline/main.py) ----
    pl_pc,       \* position inside main()
    pl_ned,      \* the ned_search directory: whether it exists, and its CSV files
    pl_data_path, \* data_path: the CSV files listed at the top of main()
    pl_stages,   \* the stages entered, in order
    pl_written,  \* the CSV files the cone search of this run wrote
    pl_queried,  \* the CSV files whose rows the ATLAS query of this run processed
    pl_err,      \* the exception that ended main(), "" if none
    \* ---- Atclean_Query.query (src/Pipeline/atlas_query.py) ----
    aq_data_path, \* self.data_path: the input CSVs, in order
    aq_exit,     \* the exit status each script returns for each event
    aq_csv_i,    \* index of the CSV of the outer for
    aq_row_i,    \* index of the row of the inner for
    aq_pc,       \* position inside query()
    aq_log,      \* the script invocations made so far, in order
    aq_err       \* the exception that ended query(), "" if none

drv_vars == <<args, config, pc, err, cut_list, tns_i, filt_i, sn, stages, saved, readme>>
fl_vars == <<fl_flags, fl_result>>
pe_vars == <<pe_lc, pe_ctl, pe_log>>
av_vars == <<av_cfg, av_bin, av_keep, av_iter, av_pc, av_out>>
sc_vars == <<sc_last_etag, sc_last_hash, sc_page, sc_net, sc_csv, sc_saved, sc_pc, sc_err,
             sc_calls, sc_call>>
pl_vars == <<pl_pc, pl_ned, pl_data_path, pl_stages, pl_written, pl_queried, pl_err>>
aq_vars == <<aq_data_path, aq_exit, aq_csv_i, aq_row_i, aq_pc, aq_log, aq_err>>
pipe_vars == <<sc_vars, pl_vars, aq_vars>>
vars == <<drv_vars, fl_vars, pe_vars, av_vars, pipe_vars>>

\* An optional value is a set of at most one element: {} is None (or NaN, for a
\* measured value), {v} is the value v.
None == {}
NaN == {}

(***************************************************************************)
(* Bounds of the model.                                                    *)
(***************************************************************************)
MaxTransients == 2
MaxCuts == 3
MaxFlag == 7
MaxBin == 4
MaxApplied == 2
MaxBit == 16
MaxCalls == 3
MaxAlerts == 2
MaxCsvs == 2
MaxRows == 2

(***************************************************************************)
(* Flags are integer bitmasks: & and | on naturals.                        *)
(***************************************************************************)
RECURSIVE BitAnd(_, _)
BitAnd(a, b) ==
    IF a = 0 \/ b = 0 THEN 0
    ELSE (a % 2) * (b % 2) + 2 * BitAnd(a \div 2, b \div 2)

RECURSIVE BitOr(_, _)
BitOr(a, b) ==
    IF a = 0 THEN b
    ELSE IF b = 0 THEN a
    ELSE (IF a % 2 = 1 \/ b % 2 = 1 THEN 1 ELSE 0) + 2 * BitOr(a \div 2, b \div 2)

\* the bits of flag a are all bits of flag b
BitsSubset(a, b) == BitAnd(a, b) = a

(***************************************************************************)
(* hexstring_to_int: int(hexstring, 16).  A string is a sequence of        *)
(* characters; the result is -1 where Python raises ValueError.            *)
(***************************************************************************)
HexDigits ==
    [c \in {"0", "1", "2", "3", "4", "5", "6", "7", "8", "9",
            "a", "b", "c", "d", "e", "f", "A", "B", "C", "D", "E", "F"} |->
        CASE c = "0" -> 0 [] c = "1" -> 1 [] c = "2" -> 2 [] c = "3" -> 3
          [] c = "4" -> 4 [] c = "5" -> 5 [] c = "6" -> 6 [] c = "7" -> 7
          [] c = "8" -> 8 [] c = "9" -> 9
          [] c \in {"a", "A"} -> 10 [] c \in {"b", "B"} -> 11
          [] c \in {"c", "C"} -> 12 [] c \in {"d", "D"} -> 13
          [] c \in {"e", "E"} -> 14 [] c \in {"f", "F"} -> 15]

ValueError == -1

RECURSIVE HexValue(_, _)
HexValue(digits, acc) ==
    IF digits = <<>> THEN acc
    ELSE IF Head(digits) \notin DOMAIN HexDigits THEN ValueError
    ELSE HexValue(Tail(digits), 16 * acc + HexDigits[Head(digits)])

hexstring_to_int(hexstring) ==
    LET body == IF Len(hexstring) >= 2 /\ hexstring[1] = "0" /\ hexstring[2] \in {"x", "X"}
                THEN SubSeq(hexstring, 3, Len(hexstring))
                ELSE hexstring
    IN  IF body = <<>> THEN ValueError ELSE HexValue(body, 0)

(***************************************************************************)
(* float(text) and int(text) of a configuration value: the numerals the    *)
(* configurations of this model use; any other text raises ValueError.     *)
(***************************************************************************)
Numerals == ("0" :> 0) @@ ("1" :> 1) @@ ("2" :> 2) @@ ("3" :> 3) @@ ("5" :> 5) @@ ("10" :> 10)
            @@ ("20" :> 20) @@ ("25" :> 25)

IsNumeral(text) == text \in DOMAIN Numerals

float(text) == IF IsNumeral(text) THEN Numerals[text] ELSE ValueError

(***************************************************************************)
(* Cut and CutList (module lightcurve; spec.md 3 and 4.1).                 *)
(***************************************************************************)
\* Cut(column=None, min_value=None, max_value=None, flag=<no bit>, params=None)
Cut(column, min_value, max_value, flag, params) ==
    [column |-> column, min_value |-> min_value, max_value |-> max_value,
     flag |-> flag, params |-> params]

NoFlag == 0
NoColumn == ""
NoParams == [none |-> TRUE]

CutListNames(cl) == {cl[i].name : i \in 1..Len(cl)}

CutListHas(cl, name) == name \in CutListNames(cl)

\* CutList.get(name): the Cut, or the "not found" sentinel; never raises
NotFound == [column |-> "not found"]

CutListGet(cl, name) ==
    IF CutListHas(cl, name)
    THEN cl[CHOOSE i \in 1..Len(cl) : cl[i].name = name].cut
    ELSE NotFound

\* CutList.add(cut, name): [raised, list]
CutListAdd(cl, cut, name) ==
    IF CutListHas(cl, name)
    THEN [raised |-> "DuplicateNameError", list |-> cl]
    ELSE [raised |-> "", list |-> Append(cl, [name |-> name, cut |-> cut])]

CutFlags(cl) == [i \in 1..Len(cl) |-> cl[i].cut.flag]

\* mutant of PairScan: only equal flag values count as duplicates
RECURSIVE PairScanEqual(_, _, _, _)
PairScanEqual(flags, i, j, dups) ==
    IF i > Len(flags) THEN dups
    ELSE IF j > Len(flags) THEN PairScanEqual(flags, i + 1, i + 2, dups)
    ELSE PairScanEqual(flags, i, j + 1,
                       IF flags[i] = flags[j] THEN dups \cup {flags[i]} ELSE dups)

\* the pairwise scan of check_for_flag_duplicates: for every pair i < j of
\* member cuts, flag_i & flag_j != 0 records both flag values
RECURSIVE PairScan(_, _, _, _)
PairScan(flags, i, j, dups) ==
    IF i > Len(flags) THEN dups
    ELSE IF j > Len(flags) THEN PairScan(flags, i + 1, i + 2, dups)
    ELSE PairScan(flags, i, j + 1,
                  IF BitAnd(flags[i], flags[j]) # 0
                  THEN dups \cup {flags[i], flags[j]}
                  ELSE dups)

\* CutList.check_for_flag_duplicates(): (has_duplicate_flags, duplicate_flags)
check_for_flag_duplicates(flags) ==
    LET dups == PairScan(flags, 1, 2, {})
    IN  [has |-> dups # {}, dups |-> dups]

(***************************************************************************)
(* The configuration file and the command line.                            *)
(*                                                                         *)
(* A section key is a pair of tokens <<stem, suffix>>, so that             *)
(* key.endswith("_cut") can be computed; a flag is a hexadecimal string, a *)
(* sequence of characters; a threshold is a numeral.                       *)
(***************************************************************************)
Key(stem, suffix) == <<stem, suffix>>

EndsWithCut(key) == key[2] = "_cut"

\* DEFAULT_CUT_NAMES (module lightcurve): the reserved default sections
DEFAULT_CUT_NAMES ==
    {Key("uncert", "_cut"), Key("x2", "_cut"), Key("controls", "_cut"),
     Key("badday", "_cut")}

h2 == <<"0", "x", "2">>
h4 == <<"0", "x", "4">>
h6 == <<"0", "x", "6">>
h8 == <<"0", "x", "8">>
h10 == <<"0", "x", "1", "0">>
h20 == <<"0", "x", "2", "0">>
h40 == <<"0", "x", "4", "0">>
h80 == <<"0", "x", "8", "0">>
h100 == <<"0", "x", "1", "0", "0">>
h200 == <<"0", "x", "2", "0", "0">>
h400 == <<"0", "x", "4", "0", "0">>
h800 == <<"0", "x", "8", "0", "0">>
hBad == <<"0", "x", "G">>

\* custom cut sections: the settings of one section, keyed by option name
SkyGood == ("column" :> "uJy") @@ ("flag" :> h20) @@ ("min_value" :> "None")
           @@ ("max_value" :> "25")
SkyBoth == ("column" :> "uJy") @@ ("flag" :> h40) @@ ("min_value" :> "5")
           @@ ("max_value" :> "25")
SkyCollides == ("column" :> "uJy") @@ ("flag" :> h4) @@ ("min_value" :> "None")
               @@ ("max_value" :> "25")
SkyNoFlag == ("column" :> "uJy") @@ ("min_value" :> "None") @@ ("max_value" :> "25")
SkyNoColumn == ("flag" :> h20) @@ ("min_value" :> "None") @@ ("max_value" :> "25")
SkyNoMin == ("column" :> "uJy") @@ ("flag" :> h20) @@ ("max_value" :> "25")
SkyBadHex == ("column" :> "uJy") @@ ("flag" :> hBad) @@ ("min_value" :> "None")
             @@ ("max_value" :> "25")

\* the custom sections of a configuration file, in file order
CustomSectionLists ==
    {<<>>, <<SkyGood>>, <<SkyCollides>>, <<SkyNoFlag>>, <<SkyNoColumn>>, <<SkyNoMin>>,
     <<SkyBadHex>>, <<SkyNoFlag, SkyBoth>>, <<SkyGood, SkyBoth>>}

CustomKeys == <<Key("sky", "_cut"), Key("moon", "_cut")>>

\* the configuration file: the default sections, then "dir", then the custom ones
Config(uncert_flag, x2_flag, bad_flag, avg_flag, custom) ==
    [uncert_est |-> [temp_x2_max_value |-> "20"],
     uncert_cut |-> [max_value |-> "20", flag |-> uncert_flag],
     x2_cut |-> [max_value |-> "5", flag |-> x2_flag, stn_bound |-> "3",
                 min_cut |-> "3", max_cut |-> "10", cut_step |-> "1",
                 use_pre_mjd0_lc |-> "True"],
     controls_cut |-> [bad_flag |-> bad_flag, questionable_flag |-> h80,
                       x2_max |-> "3", x2_flag |-> h100,
                       stn_max |-> "3", stn_flag |-> h200,
                       Nclip_max |-> "2", Nclip_flag |-> h400,
                       Ngood_min |-> "3", Ngood_flag |-> h800],
     averaging |-> [mjd_bin_size |-> "1", x2_max |-> "5", Nclip_max |-> "1",
                    Ngood_min |-> "2", ixclip_flag |-> h40 \o <<"0", "0">>,
                    smallnum_flag |-> h80 \o <<"0", "0">>, flag |-> avg_flag],
     convert |-> [filters |-> <<"o", "c">>],
     download |-> [num_controls |-> "2"],
     keys |-> <<Key("uncert", "_est"), Key("uncert", "_cut"), Key("x2", "_cut"),
                Key("controls", "_cut"), Key("averaging", ""), Key("dir", "")>>
              \o SubSeq(CustomKeys, 1, Len(custom)),
     custom |-> custom]

Configs ==
    {Config(u, x, b, a, c) : u \in {h2, h6, hBad}, x \in {h4, h2}, b \in {h8},
                             a \in {h10}, c \in CustomSectionLists}

\* config[key] of a section that is not a default one
ConfigSection(c, key) ==
    c.custom[CHOOSE i \in 1..Len(CustomKeys) : CustomKeys[i] = key]

TnsNames == <<"2023abc", "2024xyz", "2025def">>

Args ==
    [tnsnames : {SubSeq(TnsNames, 1, n) : n \in 1..MaxTransients},
     mjd0 : {None, {60000}},
     uncert_est : BOOLEAN,
     uncert_cut : BOOLEAN, x2_cut : BOOLEAN, controls_cut : BOOLEAN,
     averaging : BOOLEAN, mjd_bin_size : {None, {2}}, custom_cuts : BOOLEAN]

(***************************************************************************)
(* find_config_custom_cuts and parse_config_cuts (src/test.py).            *)
(***************************************************************************)
RECURSIVE CustomScan(_, _, _)
CustomScan(c, i, custom_cuts) ==
    IF i > Len(c.keys) THEN custom_cuts
    ELSE CustomScan(c, i + 1,
                    IF EndsWithCut(c.keys[i]) /\ c.keys[i] \notin DEFAULT_CUT_NAMES
                    THEN Append(custom_cuts, ConfigSection(c, c.keys[i]))
                    ELSE custom_cuts)

find_config_custom_cuts(c) == CustomScan(c, 1, <<>>)

\* The state of parse_config_cuts between its blocks: the exception raised so
\* far ("" if none) and the CutList so far.
ParseStart == [raised |-> "", list |-> <<>>]

Raise(st, exception) == [st EXCEPT !.raised = exception]

\* mutant of AddUncertEst: the reserved bit is passed as the entry's own flag
AddUncertEstFlagged(c, st) ==
    IF st.raised # "" THEN st
    ELSE IF hexstring_to_int(c.uncert_cut.flag) = ValueError THEN Raise(st, "ValueError")
    ELSE CutListAdd(st.list,
                    Cut(NoColumn, None, None, hexstring_to_int(c.uncert_cut.flag),
                        [temp_x2_max_value |-> float(c.uncert_est.temp_x2_max_value),
                         uncert_cut_flag |-> hexstring_to_int(c.uncert_cut.flag)]),
                    "uncert_est")

\* lines 253-263: the uncert_est entry, added always
AddUncertEst(c, st) ==
    IF st.raised # "" THEN st
    ELSE IF hexstring_to_int(c.uncert_cut.flag) = ValueError THEN Raise(st, "ValueError")
    ELSE CutListAdd(st.list,
                    Cut(NoColumn, None, None, NoFlag,
                        [temp_x2_max_value |-> float(c.uncert_est.temp_x2_max_value),
                         uncert_cut_flag |-> hexstring_to_int(c.uncert_cut.flag)]),
                    "uncert_est")

\* mutant of AddUncertCut: the ceiling is passed as min_value
AddUncertCutAsFloor(c, st) ==
    IF st.raised # "" THEN st
    ELSE CutListAdd(st.list,
                    Cut("duJy", {float(c.uncert_cut.max_value)}, None,
                        hexstring_to_int(c.uncert_cut.flag), NoParams),
                    "uncert_cut")

\* lines 265-272
AddUncertCut(c, st) ==
    IF st.raised # "" THEN st
    ELSE IF hexstring_to_int(c.uncert_cut.flag) = ValueError THEN Raise(st, "ValueError")
    ELSE CutListAdd(st.list,
                    Cut("duJy", None, {float(c.uncert_cut.max_value)},
                        hexstring_to_int(c.uncert_cut.flag), NoParams),
                    "uncert_cut")

\* lines 274-289
AddX2Cut(c, st) ==
    IF st.raised # "" THEN st
    ELSE IF hexstring_to_int(c.x2_cut.flag) = ValueError THEN Raise(st, "ValueError")
    ELSE CutListAdd(st.list,
                    Cut("chi/N", None, {float(c.x2_cut.max_value)},
                        hexstring_to_int(c.x2_cut.flag),
                        [stn_bound |-> float(c.x2_cut.stn_bound),
                         min_cut |-> float(c.x2_cut.min_cut),
                         max_cut |-> float(c.x2_cut.max_cut),
                         cut_step |-> float(c.x2_cut.cut_step),
                         use_pre_mjd0_lc |-> (c.x2_cut.use_pre_mjd0_lc = "True")]),
                    "x2_cut")

\* mutant of AddControlsCut: the cut's flag is read from x2_flag
AddControlsCutX2Flag(c, st) ==
    LET s == c.controls_cut
    IN  IF st.raised # "" THEN st
        ELSE CutListAdd(st.list,
                        Cut(NoColumn, None, None, hexstring_to_int(s.x2_flag),
                            [questionable_flag |-> hexstring_to_int(s.questionable_flag),
                             x2_max |-> float(s.x2_max),
                             x2_flag |-> hexstring_to_int(s.x2_flag),
                             stn_max |-> float(s.stn_max),
                             stn_flag |-> hexstring_to_int(s.stn_flag),
                             Nclip_max |-> float(s.Nclip_max),
                             Nclip_flag |-> hexstring_to_int(s.Nclip_flag),
                             Ngood_min |-> float(s.Ngood_min),
                             Ngood_flag |-> hexstring_to_int(s.Ngood_flag)]),
                        "controls_cut")

\* lines 291-309
AddControlsCut(c, st) ==
    LET s == c.controls_cut
        flags == {hexstring_to_int(s.questionable_flag), hexstring_to_int(s.x2_flag),
                  hexstring_to_int(s.stn_flag), hexstring_to_int(s.Nclip_flag),
                  hexstring_to_int(s.Ngood_flag), hexstring_to_int(s.bad_flag)}
    IN  IF st.raised # "" THEN st
        ELSE IF ValueError \in flags THEN Raise(st, "ValueError")
        ELSE CutListAdd(st.list,
                        Cut(NoColumn, None, None, hexstring_to_int(s.bad_flag),
                            [questionable_flag |-> hexstring_to_int(s.questionable_flag),
                             x2_max |-> float(s.x2_max),
                             x2_flag |-> hexstring_to_int(s.x2_flag),
                             stn_max |-> float(s.stn_max),
                             stn_flag |-> hexstring_to_int(s.stn_flag),
                             Nclip_max |-> float(s.Nclip_max),
                             Nclip_flag |-> hexstring_to_int(s.Nclip_flag),
                             Ngood_min |-> float(s.Ngood_min),
                             Ngood_flag |-> hexstring_to_int(s.Ngood_flag)]),
                        "controls_cut")

\* mutant of AddBaddayCut: the cut's flag is read from smallnum_flag
AddBaddayCutSmallnumFlag(a, c, st) ==
    LET s == c.averaging
    IN  IF st.raised # "" THEN st
        ELSE IF a.mjd_bin_size # None THEN Raise(st, "AttributeError")
        ELSE CutListAdd(st.list,
                        Cut(NoColumn, None, None, hexstring_to_int(s.smallnum_flag),
                            [mjd_bin_size |-> float(s.mjd_bin_size),
                             x2_max |-> float(s.x2_max),
                             Nclip_max |-> float(s.Nclip_max),
                             Ngood_min |-> float(s.Ngood_min),
                             ixclip_flag |-> hexstring_to_int(s.ixclip_flag),
                             smallnum_flag |-> hexstring_to_int(s.smallnum_flag)]),
                        "badday_cut")

\* lines 311-328; line 316 reads args.args.mjd_bin_size, and args has no
\* attribute args: AttributeError whenever a bin size was given
AddBaddayCut(a, c, st) ==
    LET s == c.averaging
        flags == {hexstring_to_int(s.ixclip_flag), hexstring_to_int(s.smallnum_flag),
                  hexstring_to_int(s.flag)}
    IN  IF st.raised # "" THEN st
        ELSE IF a.mjd_bin_size # None THEN Raise(st, "AttributeError")
        ELSE IF ValueError \in flags THEN Raise(st, "ValueError")
        ELSE CutListAdd(st.list,
                        Cut(NoColumn, None, None, hexstring_to_int(s.flag),
                            [mjd_bin_size |-> float(s.mjd_bin_size),
                             x2_max |-> float(s.x2_max),
                             Nclip_max |-> float(s.Nclip_max),
                             Ngood_min |-> float(s.Ngood_min),
                             ixclip_flag |-> hexstring_to_int(s.ixclip_flag),
                             smallnum_flag |-> hexstring_to_int(s.smallnum_flag)]),
                        "badday_cut")

CustomCutNames == <<"custom_cut_0", "custom_cut_1", "custom_cut_2">>

\* the optional bound of a custom cut: the literal "None" is unset
CustomBound(text) == IF text = "None" THEN None ELSE {float(text)}

\* mutant of AddCustomCut: the KeyError of a missing key is not caught
AddCustomCutKeyErrorFatal(settings, i, st) ==
    LET missing == {"column", "flag", "min_value", "max_value"} \ DOMAIN settings
        bad_text == \/ hexstring_to_int(settings["flag"]) = ValueError
                    \/ \E k \in {"min_value", "max_value"} :
                          settings[k] # "None" /\ ~IsNumeral(settings[k])
        added == CutListAdd(st.list,
                            Cut(settings["column"], CustomBound(settings["min_value"]),
                                CustomBound(settings["max_value"]),
                                hexstring_to_int(settings["flag"]), NoParams),
                            CustomCutNames[i + 1])
    IN  IF missing # {} THEN Raise(st, "KeyError")
        ELSE IF bad_text THEN st
        ELSE IF added.raised # "" THEN st
        ELSE added

\* lines 333-351, one pass of the for: any exception inside the try is caught,
\* a warning printed, and the section skipped
AddCustomCut(settings, i, st) ==
    LET missing == {"column", "flag", "min_value", "max_value"} \ DOMAIN settings
        bad_text == \/ hexstring_to_int(settings["flag"]) = ValueError
                    \/ \E k \in {"min_value", "max_value"} :
                          settings[k] # "None" /\ ~IsNumeral(settings[k])
        added == CutListAdd(st.list,
                            Cut(settings["column"], CustomBound(settings["min_value"]),
                                CustomBound(settings["max_value"]),
                                hexstring_to_int(settings["flag"]), NoParams),
                            CustomCutNames[i + 1])
    IN  IF missing # {} THEN st
        ELSE IF bad_text THEN st
        ELSE IF added.raised # "" THEN st
        ELSE added

RECURSIVE AddCustomCuts(_, _, _)
AddCustomCuts(config_custom_cuts, i, st) ==
    IF st.raised # "" \/ i >= Len(config_custom_cuts) THEN st
    ELSE AddCustomCuts(config_custom_cuts, i + 1,
                       AddCustomCut(config_custom_cuts[i + 1], i, st))


\* parse_config_cuts(args, config), lines 247-351: the CutList as assembled
\* before the flag check
AssembleCuts(a, c) ==
    LET config_custom_cuts == IF a.custom_cuts THEN find_config_custom_cuts(c) ELSE <<>>
        s1 == AddUncertEst(c, ParseStart)
        s2 == IF a.uncert_cut THEN AddUncertCut(c, s1) ELSE s1
        s3 == IF a.x2_cut THEN AddX2Cut(c, s2) ELSE s2
        s4 == IF a.controls_cut THEN AddControlsCut(c, s3) ELSE s3
        s5 == IF a.averaging THEN AddBaddayCut(a, c, s4) ELSE s4
        s6 == IF a.custom_cuts THEN AddCustomCuts(config_custom_cuts, 0, s5) ELSE s5
    IN  s6

\* mutant of CheckDuplicates: the result of the flag check is ignored
CheckDuplicatesIgnored(st) == st

\* lines 353-358: the flag check on the assembled CutList
CheckDuplicates(st) ==
    IF st.raised # "" THEN st
    ELSE IF check_for_flag_duplicates(CutFlags(st.list)).has
    THEN Raise(st, "RuntimeError")
    ELSE st

\* parse_config_cuts(args, config): [raised, list]
parse_config_cuts(a, c) == CheckDuplicates(AssembleCuts(a, c))

(***************************************************************************)
(* Measurements and input tables (spec.md 3 and 6).  A row maps a column   *)
(* name to an optional value ({} is missing / NaN).                        *)
(***************************************************************************)
Row(mjd, flux, flux_err, chi2) ==
    ("MJD" :> {mjd}) @@ ("uJy" :> {flux}) @@ ("duJy" :> flux_err) @@ ("chi/N" :> chi2)

RequiredColumns == {"MJD", "uJy", "duJy"}

\* an input file: the columns its header lacks, and its rows
InputFile(lacks, rows) == [lacks |-> lacks, rows |-> rows]

InputFiles ==
    {InputFile({}, <<Row(1, 10, {25}, {2}), Row(2, 10, {10}, {8}), Row(3, 10, {25}, {8})>>),
     InputFile({}, <<Row(1, 10, {20}, {5}), Row(2, 10, NaN, {2})>>),
     InputFile({"duJy"}, <<>>)}

\* Supernova.load_all (module lightcurve): a file lacking a required column
\* fails the unit; otherwise every Measurement starts with flag 0
LoadRaises(file) == file.lacks \cap RequiredColumns # {}

LoadedFlag == 0

load_all(file) == [i \in 1..Len(file.rows) |-> file.rows[i] @@ ("flag" :> LoadedFlag)]

(***************************************************************************)
(* The cleaning driver: __main__, CleanLoop.loop, CleanLoop.clean_lcs.     *)
(***************************************************************************)
Filters == config.convert.filters

Unit == <<args.tnsnames[tns_i], Filters[filt_i]>>

Units == {<<args.tnsnames[t], Filters[f]>> : t \in 1..Len(args.tnsnames), f \in 1..Len(Filters)}

DriverIdle ==
    /\ args = "idle" /\ config = "idle" /\ pc = "idle" /\ err = "" /\ cut_list = <<>>
    /\ tns_i = 0 /\ filt_i = 0 /\ sn = <<>> /\ stages = <<>> /\ saved = {} /\ readme = {}

NotCalled == [called |-> FALSE, has |-> FALSE, dups |-> {}]

FlagsIdle == fl_flags = <<>> /\ fl_result = NotCalled

CutIdle == pe_lc = <<>> /\ pe_ctl = "idle" /\ pe_log = <<>>

AvgIdle ==
    /\ av_cfg = "idle" /\ av_bin = <<>> /\ av_keep = {} /\ av_iter = 0
    /\ av_pc = "idle" /\ av_out = "idle"

\* no alert data was saved yet
NeverSaved == [any |-> FALSE, etag |-> None]

NoCall == [before |-> NeverSaved, saved |-> FALSE]

ScrapeIdle ==
    /\ sc_last_etag = None /\ sc_last_hash = None /\ sc_page = "idle" /\ sc_net = "idle"
    /\ sc_csv = None /\ sc_saved = NeverSaved /\ sc_pc = "idle" /\ sc_err = ""
    /\ sc_calls = 0 /\ sc_call = NoCall

PipeIdle ==
    /\ pl_pc = "idle" /\ pl_ned = "idle" /\ pl_data_path = <<>> /\ pl_stages = <<>>
    /\ pl_written = {} /\ pl_queried = {} /\ pl_err = ""

QueryIdle ==
    /\ aq_data_path = <<>> /\ aq_exit = "idle" /\ aq_csv_i = 0 /\ aq_row_i = 0
    /\ aq_pc = "idle" /\ aq_log = <<>> /\ aq_err = ""

PipelineIdle == ScrapeIdle /\ PipeIdle /\ QueryIdle

Init ==
    /\ args \in Args
    /\ config \in Configs
    /\ pc = "main"
    /\ err = ""
    /\ cut_list = <<>>
    /\ tns_i = 0
    /\ filt_i = 0
    /\ sn = <<>>
    /\ stages = <<>>
    /\ saved = {}
    /\ readme = {}
    /\ FlagsIdle /\ CutIdle /\ AvgIdle /\ PipelineIdle

\* __main__, lines 477-533: the checks of the command line, then
\* parse_config_cuts, then the CleanLoop is built
Main ==
    /\ pc = "main"
    /\ LET parsed == parse_config_cuts(args, config)
       IN  IF Len(args.tnsnames) > 1 /\ args.mjd0 # None
           THEN /\ pc' = "error"
                /\ err' = "RuntimeError: one MJD0 for a batch"
                /\ UNCHANGED cut_list
           ELSE IF parsed.raised # ""
           THEN /\ pc' = "error"
                /\ err' = parsed.raised
                /\ UNCHANGED cut_list
           ELSE /\ pc' = "loop"
                /\ cut_list' = parsed.list
                /\ UNCHANGED err
    /\ tns_i' = 1
    /\ UNCHANGED <<args, config, filt_i, sn, stages, saved, readme>>
    /\ UNCHANGED <<fl_vars, pe_vars, av_vars, pipe_vars>>

\* CleanLoop.loop, lines 212-215: the next transient; its README.md is opened
LoopTransient ==
    /\ pc = "loop"
    /\ tns_i <= Len(args.tnsnames)
    /\ readme' = readme \cup {args.tnsnames[tns_i]}
    /\ filt_i' = 1
    /\ pc' = "filters"
    /\ UNCHANGED <<args, config, err, cut_list, tns_i, sn, stages, saved>>
    /\ UNCHANGED <<fl_vars, pe_vars, av_vars, pipe_vars>>

\* CleanLoop.loop, line 212: the list of transients is exhausted
LoopDone ==
    /\ pc = "loop"
    /\ tns_i > Len(args.tnsnames)
    /\ pc' = "done"
    /\ UNCHANGED <<args, config, err, cut_list, tns_i, filt_i, sn, stages, saved, readme>>
    /\ UNCHANGED <<fl_vars, pe_vars, av_vars, pipe_vars>>

\* CleanLoop.clean_lcs, lines 173-176: the unit's light curves are loaded.  An
\* exception of load_all is caught nowhere: it leaves clean_lcs, loop and the
\* script.
CleanLcsLoad ==
    /\ pc = "filters"
    /\ filt_i <= Len(Filters)
    /\ \E file \in InputFiles :
          IF LoadRaises(file)
          THEN /\ pc' = "aborted"
               /\ err' = "KeyError"
               /\ stages' = <<"Load">>
               /\ UNCHANGED sn
          ELSE /\ pc' = "loaded"
               /\ sn' = load_all(file)
               /\ stages' = <<"Load">>
               /\ UNCHANGED err
    /\ UNCHANGED <<args, config, cut_list, tns_i, filt_i, saved, readme>>
    /\ UNCHANGED <<fl_vars, pe_vars, av_vars, pipe_vars>>

\* CleanLoop.clean_lcs, lines 178-184: the unit is saved, and the inner for of
\* loop goes on to the next filter
CleanLcsSave ==
    /\ pc = "loaded"
    /\ saved' = saved \cup {Unit}
    /\ stages' = Append(stages, "Save")
    /\ filt_i' = filt_i + 1
    /\ pc' = "filters"
    /\ UNCHANGED <<args, config, err, cut_list, tns_i, sn, readme>>
    /\ UNCHANGED <<fl_vars, pe_vars, av_vars, pipe_vars>>

\* CleanLoop.loop, line 217: the filters of this transient are exhausted
LoopFiltersDone ==
    /\ pc = "filters"
    /\ filt_i > Len(Filters)
    /\ tns_i' = tns_i + 1
    /\ pc' = "loop"
    /\ UNCHANGED <<args, config, err, cut_list, filt_i, sn, stages, saved, readme>>
    /\ UNCHANGED <<fl_vars, pe_vars, av_vars, pipe_vars>>

Next ==
    \/ Main
    \/ LoopTransient
    \/ LoopDone
    \/ CleanLcsLoad
    \/ CleanLcsSave
    \/ LoopFiltersDone

Spec == Init /\ [][Next]_vars

(***************************************************************************)
(* CutList.check_for_flag_duplicates on CutLists of any flags.             *)
(***************************************************************************)
FlagLists == UNION {[1..n -> 0..MaxFlag] : n \in 0..MaxCuts}

InitFlags ==
    /\ fl_flags \in FlagLists
    /\ fl_result = NotCalled
    /\ DriverIdle /\ CutIdle /\ AvgIdle /\ PipelineIdle

FlagsCheck ==
    /\ ~fl_result.called
    /\ fl_result' = [called |-> TRUE] @@ check_for_flag_duplicates(fl_flags)
    /\ UNCHANGED <<fl_flags, drv_vars, pe_vars, av_vars, pipe_vars>>

NextFlags == FlagsCheck

SpecFlags == InitFlags /\ [][NextFlags]_vars

(***************************************************************************)
(* The Point Evaluator (spec.md 4.2), the Control-Statistics Evaluator     *)
(* (4.3) and the Uncertainty Estimator (4.5), applied to one Measurement.  *)
(***************************************************************************)
\* a value of the cut's column is rejected: missing / NaN, below min_value, or
\* above max_value
Rejected(cut, value) ==
    \/ value = NaN
    \/ \E v \in value : \E lo \in cut.min_value : v < lo
    \/ \E v \in value : \E hi \in cut.max_value : v > hi

\* the rejection mask of a cut over a Measurement sequence
CutMask(cut, lc) == [i \in 1..Len(lc) |-> Rejected(cut, lc[i][cut.column])]

\* mutant of ApplyMask: the flag is assigned, not OR-ed
ApplyMaskAssign(lc, mask, flag) ==
    [i \in 1..Len(lc) |-> IF mask[i] THEN [lc[i] EXCEPT !["flag"] = flag] ELSE lc[i]]

\* mutant of ApplyMask: the flag is added, not OR-ed
ApplyMaskAdd(lc, mask, flag) ==
    [i \in 1..Len(lc) |-> IF mask[i] THEN [lc[i] EXCEPT !["flag"] = @ + flag] ELSE lc[i]]

\* mutant of ApplyMask: only a Measurement without any flag is flagged
ApplyMaskFirstOnly(lc, mask, flag) ==
    [i \in 1..Len(lc) |-> IF mask[i] /\ lc[i]["flag"] = 0
                          THEN [lc[i] EXCEPT !["flag"] = flag] ELSE lc[i]]

\* flag |= cut.flag on every rejected Measurement
ApplyMask(lc, mask, flag) ==
    [i \in 1..Len(lc) |-> IF mask[i] THEN [lc[i] EXCEPT !["flag"] = BitOr(@, flag)]
                          ELSE lc[i]]

apply_cut(cut, lc) == ApplyMask(lc, CutMask(cut, lc), cut.flag)

\* the statistics of one epoch of the control light curves, and the flags of
\* the control points that contribute to it
ControlStats ==
    [x2 : {2, 4}, stn : {1, 5}, Nclip : {0, 3}, Ngood : {2, 4},
     flags : [1..2 -> {0, 128}]]

\* a control epoch is rejected
ControlsRejected(cut, ctl) ==
    \/ ctl.x2 > cut.params.x2_max
    \/ ctl.stn > cut.params.stn_max
    \/ ctl.Nclip > cut.params.Nclip_max
    \/ ctl.Ngood < cut.params.Ngood_min
    \/ \E k \in DOMAIN ctl.flags : BitAnd(ctl.flags[k], cut.params.questionable_flag) # 0

\* the controls cut on the primary light curve, ctl[i] being the control
\* statistics of the epoch of Measurement i: the cut's one flag
ControlsMask(cut, ctl, lc) == [i \in 1..Len(lc) |-> ControlsRejected(cut, ctl[i])]

apply_controls_cut(cut, ctl, lc) == ApplyMask(lc, ControlsMask(cut, ctl, lc), cut.flag)

\* the uncertainty pre-pass: flux_err rescaled when the check signals true
RescaleFactors == {2, 3}

apply_uncert_est(apply, factor, lc) ==
    [i \in 1..Len(lc) |-> IF apply THEN [lc[i] EXCEPT !["duJy"] = {v * factor : v \in @}]
                          ELSE lc[i]]

\* every cut enabled, the default flags, one custom cut with both bounds
AllCutsArgs ==
    [tnsnames |-> <<TnsNames[1]>>, mjd0 |-> None, uncert_est |-> TRUE, uncert_cut |-> TRUE,
     x2_cut |-> TRUE, controls_cut |-> TRUE, averaging |-> TRUE, mjd_bin_size |-> None,
     custom_cuts |-> TRUE]

DefaultConfig == Config(h2, h4, h8, h10, <<SkyBoth>>)

AllCuts == parse_config_cuts(AllCutsArgs, DefaultConfig).list

PointCutNames == {AllCuts[i].name : i \in {j \in 1..Len(AllCuts) : AllCuts[j].cut.column # NoColumn}}

Measurements ==
    {Row(1, f, e, x) @@ ("flag" :> LoadedFlag) :
        f \in {3, 5, 10}, e \in {NaN, {10}, {20}, {25}}, x \in {NaN, {5}, {8}}}

LogEntry(name, before, after) == [cut |-> name, before |-> before, after |-> after]

InitCut ==
    /\ pe_lc \in {<<m>> : m \in Measurements}
    /\ pe_ctl \in {<<c>> : c \in ControlStats}
    /\ pe_log = <<>>
    /\ DriverIdle /\ FlagsIdle /\ AvgIdle /\ PipelineIdle

\* one point cut of the CutList is applied to the light curve
PointCut ==
    /\ Len(pe_log) < MaxApplied
    /\ \E name \in PointCutNames :
          LET after == apply_cut(CutListGet(AllCuts, name), pe_lc)
          IN  /\ pe_lc' = after
              /\ pe_log' = Append(pe_log, LogEntry(name, pe_lc, after))
    /\ UNCHANGED <<pe_ctl, drv_vars, fl_vars, av_vars, pipe_vars>>

\* the controls cut is applied to the light curve
ControlsCut ==
    /\ Len(pe_log) < MaxApplied
    /\ LET after == apply_controls_cut(CutListGet(AllCuts, "controls_cut"), pe_ctl, pe_lc)
       IN  /\ pe_lc' = after
           /\ pe_log' = Append(pe_log, LogEntry("controls_cut", pe_lc, after))
    /\ UNCHANGED <<pe_ctl, drv_vars, fl_vars, av_vars, pipe_vars>>

\* the uncertainty pre-pass runs on the light curve
UncertEst ==
    /\ Len(pe_log) < MaxApplied
    /\ \E apply \in BOOLEAN, factor \in RescaleFactors :
          LET after == apply_uncert_est(apply, factor, pe_lc)
          IN  /\ pe_lc' = after
              /\ pe_log' = Append(pe_log, LogEntry("uncert_est", pe_lc, after))
    /\ UNCHANGED <<pe_ctl, drv_vars, fl_vars, av_vars, pipe_vars>>

NextCut ==
    \/ PointCut
    \/ ControlsCut
    \/ UncertEst

SpecCut == InitCut /\ [][NextCut]_vars

(***************************************************************************)
(* The Bad-Day Averager on one bin (spec.md 4.4).  Means and chi-squares   *)
(* are rationals [num, den]; comparisons are cross-multiplied.             *)
(***************************************************************************)
Point(flux, flux_err) == [uJy |-> flux, duJy |-> flux_err]

AvgPoints == {Point(0, 1), Point(10, 1), Point(10, 2), Point(1000, 1)}

Bins == UNION {[1..n -> AvgPoints] : n \in 1..MaxBin}

\* the averaging section with other acceptance thresholds
AvgConfig(nclip_max, ngood_min) ==
    [DefaultConfig EXCEPT !.averaging.Nclip_max = nclip_max,
                          !.averaging.Ngood_min = ngood_min]

BaddayCut(c) == CutListGet(parse_config_cuts(AllCutsArgs, c).list, "badday_cut")

\* the bad-day cut, the clip threshold in deviations, the divisor n - ddof of the
\* standard deviation, and the iteration cap
AvgSettings ==
    [cut : {BaddayCut(AvgConfig(c, g)) : c \in {"0", "1"}, g \in {"2", "3"}},
     Nsigma : {1, 3}, ddof : {0, 1}, maxiter : {1, 10}]

RECURSIVE SumOver(_, _)
SumOver(f, K) ==
    IF K = {} THEN 0
    ELSE LET k == CHOOSE x \in K : TRUE IN f[k] + SumOver(f, K \ {k})

Fluxes(bin) == [i \in 1..Len(bin) |-> bin[i].uJy]

Squares(bin) == [i \in 1..Len(bin) |-> bin[i].uJy * bin[i].uJy]

\* n * x_i - sum: n times the distance of point i from the mean of the sample K
Deviation(bin, K, i) == Cardinality(K) * bin[i].uJy - SumOver(Fluxes(bin), K)

\* n^2 times the population variance of the sample K
Spread(bin, K) ==
    Cardinality(K) * SumOver(Squares(bin), K)
        - SumOver(Fluxes(bin), K) * SumOver(Fluxes(bin), K)

\* |x_i - mean| > Nsigma * std.  With ddof = 1 the standard deviation of a
\* single point is NaN, and a comparison with NaN is false.
TooFar(bin, K, i, Nsigma, ddof) ==
    LET n == Cardinality(K)
        d == Deviation(bin, K, i)
    IN  IF ddof = 0
        THEN d * d > Nsigma * Nsigma * Spread(bin, K)
        ELSE n >= 2 /\ d * d * (n - 1) > Nsigma * Nsigma * n * Spread(bin, K)

\* the points one clipping iteration rejects
ClipRejects(bin, K, Nsigma, ddof) == {i \in K : TooFar(bin, K, i, Nsigma, ddof)}

\* 4 / flux_err^2, flux_err being 1 or 2
ErrWeight(p) == 4 \div (p.duJy * p.duJy)

\* the reduced chi-square of the retained points around their mean; NaN when
\* fewer than two points are retained
Chi2(bin, K) ==
    LET n == Cardinality(K)
        terms == [i \in 1..Len(bin) |->
                     Deviation(bin, K, i) * Deviation(bin, K, i) * ErrWeight(bin[i])]
    IN  IF n < 2 THEN NaN
        ELSE {[num |-> SumOver(terms, K), den |-> 4 * n * n * (n - 1)]}

\* chi2 > x2_max; false for NaN
Exceeds(chi2, x2_max) == \E c \in chi2 : c.num > x2_max * c.den

\* the flag of the bin: the two bits are set independently
BinFlag(cut, n_good, n_clipped, chi2) ==
    BitOr(IF n_good < cut.params.Ngood_min THEN cut.params.smallnum_flag ELSE 0,
          IF Exceeds(chi2, cut.params.x2_max) \/ n_clipped > cut.params.Nclip_max
          THEN cut.flag ELSE 0)

AveragedBin(cut, bin, K) ==
    [flux |-> [num |-> SumOver(Fluxes(bin), K), den |-> Cardinality(K)],
     n_clipped |-> Len(bin) - Cardinality(K),
     n_good |-> Cardinality(K),
     chi2 |-> Chi2(bin, K),
     flag |-> BinFlag(cut, Cardinality(K), Len(bin) - Cardinality(K), Chi2(bin, K))]

NoBin == [flux |-> [num |-> 0, den |-> 1], n_clipped |-> 0, n_good |-> 0, chi2 |-> NaN,
          flag |-> 0]

InitAvg ==
    /\ av_cfg \in AvgSettings
    /\ av_bin \in Bins
    /\ av_keep = 1..Len(av_bin)
    /\ av_iter = 0
    /\ av_pc = "clip"
    /\ av_out = NoBin
    /\ DriverIdle /\ FlagsIdle /\ CutIdle /\ PipelineIdle

\* mutant of AvgClip: a rejecting iteration neither removes a point nor counts
AvgClipNoProgress ==
    /\ av_pc = "clip"
    /\ LET rejects == ClipRejects(av_bin, av_keep, av_cfg.Nsigma, av_cfg.ddof)
       IN  IF rejects = {}
           THEN /\ av_pc' = "stats"
                /\ UNCHANGED <<av_keep, av_iter>>
           ELSE UNCHANGED <<av_keep, av_iter, av_pc>>
    /\ UNCHANGED <<av_cfg, av_bin, av_out, drv_vars, fl_vars, pe_vars, pipe_vars>>

\* one iteration of the sigma clipping: it rejects the points too far from the
\* mean, and the loop ends when none is rejected or the cap is reached
AvgClip ==
    /\ av_pc = "clip"
    /\ LET rejects == ClipRejects(av_bin, av_keep, av_cfg.Nsigma, av_cfg.ddof)
       IN  IF rejects = {} \/ av_iter >= av_cfg.maxiter
           THEN /\ av_pc' = "stats"
                /\ UNCHANGED <<av_keep, av_iter>>
           ELSE /\ av_keep' = av_keep \ rejects
                /\ av_iter' = av_iter + 1
                /\ UNCHANGED av_pc
    /\ UNCHANGED <<av_cfg, av_bin, av_out, drv_vars, fl_vars, pe_vars, pipe_vars>>

\* the statistics of the clipped sample and the flag of the bin
AvgEmit ==
    /\ av_pc = "stats"
    /\ av_out' = AveragedBin(av_cfg.cut, av_bin, av_keep)
    /\ av_pc' = "emitted"
    /\ UNCHANGED <<av_cfg, av_bin, av_keep, av_iter, drv_vars, fl_vars, pe_vars, pipe_vars>>

NextAvg ==
    \/ AvgClip
    \/ AvgEmit

SpecAvg == InitAvg /\ [][NextAvg]_vars

\* the averager runs to completion: a synchronous loop that is never suspended
SpecAvgLive == SpecAvg /\ WF_vars(NextAvg)

(***************************************************************************)
(* AlertScraper (src/Pipeline/fetch_alerts.py).  The body of the page is   *)
(* the sequence of the rows of its table, <<>> for an empty body; a        *)
(* response is None or {body}.  The page changes between calls only.       *)
(***************************************************************************)
AlertRow(id, rev) == [id |-> id, Rev |-> rev]

EmptyBody == <<>>
BodyNoRev1 == <<AlertRow(4, "0")>>
BodyOne == <<AlertRow(1, "1"), AlertRow(2, "0")>>
BodyTwo == <<AlertRow(1, "1"), AlertRow(3, "1")>>

Bodies == {EmptyBody, BodyNoRev1, BodyOne, BodyTwo}

ETags == {None, {"A"}, {"B"}}

ScrapePages == [etag : ETags, body : Bodies]

Nets == [head : BOOLEAN, get : BOOLEAN]

\* hashlib.md5(html.encode("utf-8")).hexdigest(): a digest of the body
Md5(body) == <<"md5", body>>

\* parse_table: the rows whose Rev is '1', without the Rev column
parse_table(body) ==
    LET kept == SelectSeq(body, LAMBDA row : row.Rev = "1")
    IN  [i \in 1..Len(kept) |-> [id |-> kept[i].id]]

\* a caller calls scrape(); the server holds some page and the network is in
\* some state
ScrapeCall ==
    /\ pl_pc = "idle"
    /\ sc_pc = "ready"
    /\ sc_calls < MaxCalls
    /\ sc_page' \in ScrapePages
    /\ sc_net' \in Nets
    /\ sc_calls' = sc_calls + 1
    /\ sc_pc' = "head"
    /\ sc_err' = ""
    /\ sc_call' = [before |-> sc_saved, saved |-> FALSE]
    /\ UNCHANGED <<sc_last_etag, sc_last_hash, sc_csv, sc_saved>>
    /\ UNCHANGED <<drv_vars, fl_vars, pe_vars, av_vars, pl_vars, aq_vars>>

\* has_page_updated, lines 22-43: requests.head is in no try; a changed ETag is
\* stored at once; False makes scrape() print "No new data" and return
HasPageUpdated ==
    /\ sc_pc = "head"
    /\ IF ~sc_net.head
       THEN /\ sc_err' = "ConnectionError"
            /\ sc_pc' = "ready"
            /\ UNCHANGED sc_last_etag
       ELSE IF sc_page.etag # None
       THEN IF sc_page.etag # sc_last_etag
            THEN /\ sc_last_etag' = sc_page.etag
                 /\ sc_pc' = "get"
                 /\ UNCHANGED sc_err
            ELSE /\ sc_pc' = "ready"
                 /\ UNCHANGED <<sc_last_etag, sc_err>>
       ELSE /\ sc_pc' = "hash"
            /\ UNCHANGED <<sc_last_etag, sc_err>>
    /\ UNCHANGED <<sc_last_hash, sc_page, sc_net, sc_csv, sc_saved, sc_calls, sc_call>>
    /\ UNCHANGED <<drv_vars, fl_vars, pe_vars, av_vars, pl_vars, aq_vars>>

\* has_content_hash_changed, lines 45-63: its own GET of the page, which may
\* fail; a changed hash is stored at once
HasContentHashChanged ==
    /\ sc_pc = "hash"
    /\ \E html \in {None, {sc_page.body}} :
          IF html = None
          THEN /\ sc_pc' = "ready"
               /\ UNCHANGED sc_last_hash
          ELSE IF sc_last_hash # {Md5(sc_page.body)}
          THEN /\ sc_last_hash' = {Md5(sc_page.body)}
               /\ sc_pc' = "get"
          ELSE /\ sc_pc' = "ready"
               /\ UNCHANGED sc_last_hash
    /\ UNCHANGED <<sc_last_etag, sc_page, sc_net, sc_csv, sc_saved, sc_err, sc_calls, sc_call>>
    /\ UNCHANGED <<drv_vars, fl_vars, pe_vars, av_vars, pl_vars, aq_vars>>

\* scrape, lines 117-125, with request_page (65-78) and parse_table (80-108):
\* the page is fetched and, `if html`, parsed and saved
ScrapeFetch ==
    /\ sc_pc = "get"
    /\ LET html == IF sc_net.get THEN {sc_page.body} ELSE None
       IN  IF html # None /\ sc_page.body # EmptyBody
           THEN /\ sc_csv' = {parse_table(sc_page.body)}
                /\ sc_saved' = [any |-> TRUE, etag |-> sc_page.etag]
                /\ sc_call' = [sc_call EXCEPT !.saved = TRUE]
           ELSE UNCHANGED <<sc_csv, sc_saved, sc_call>>
    /\ sc_pc' = "ready"
    /\ UNCHANGED <<sc_last_etag, sc_last_hash, sc_page, sc_net, sc_err, sc_calls>>
    /\ UNCHANGED <<drv_vars, fl_vars, pe_vars, av_vars, pl_vars, aq_vars>>

\* AlertScraper.__init__, lines 8-20, before the first call
InitScrape ==
    /\ sc_last_etag = None
    /\ sc_last_hash = None
    /\ sc_page \in ScrapePages
    /\ sc_net \in Nets
    /\ sc_csv = None
    /\ sc_saved = NeverSaved
    /\ sc_pc = "ready"
    /\ sc_err = ""
    /\ sc_calls = 0
    /\ sc_call = NoCall
    /\ DriverIdle /\ FlagsIdle /\ CutIdle /\ AvgIdle /\ PipeIdle /\ QueryIdle

NextScrape ==
    \/ ScrapeCall
    \/ HasPageUpdated
    \/ HasContentHashChanged
    \/ ScrapeFetch

SpecScrape == InitScrape /\ [][NextScrape]_vars

(***************************************************************************)
(* The pipeline's main() (src/Pipeline/main.py), with CatSearch.search     *)
(* (cone_search.py) and Atclean_Query.query (atlas_query.py).  The CSV     *)
(* file NED_SEARCH_<i>.csv of the ned_search directory is named i.         *)
(***************************************************************************)
NedNames == 0..(MaxAlerts - 1)

\* a file of the ned_search directory: absent, left by an earlier run with the
\* columns the cone search writes (RA, Dec) or with the columns the ATLAS query
\* reads (ra, dec, date, event), or written by the cone search of this run
FileKinds == {"absent", "old_ned", "old_full", "new_ned"}

NedDirs ==
    {[exists |-> FALSE, files |-> [n \in NedNames |-> "absent"]]}
        \cup [exists : {TRUE}, files : [NedNames -> {"absent", "old_ned", "old_full"}]]

\* os.listdir(...) filtered on ".csv": the files present, in the directory's order
Listings(dir) ==
    LET present == {n \in NedNames : dir.files[n] # "absent"}
    IN  {order \in [1..Cardinality(present) -> present] :
            \A i, j \in 1..Cardinality(present) : order[i] = order[j] => i = j}

\* data_csv[['ra', 'dec', 'date', 'event']] of a file the cone search wrote
\* (SELECT ... RA,Dec) raises KeyError
QueryRaises(kind) == kind \in {"old_ned", "new_ned"}

\* the position in data_path at which query() raises, Len + 1 if it does not
FirstRaising(dir, data_path) ==
    LET bad == {i \in 1..Len(data_path) : QueryRaises(dir.files[data_path[i]])}
    IN  IF bad = {} THEN Len(data_path) + 1
        ELSE CHOOSE i \in bad : \A j \in bad : i <= j

\* main, lines 135-148: the ned_search directory is listed into data_path,
\* then stage 1 begins: a new AlertScraper, and scrape() is called
PipeList ==
    /\ pl_pc = "start"
    /\ IF ~pl_ned.exists
       THEN /\ pl_pc' = "aborted"
            /\ pl_err' = "FileNotFoundError"
            /\ UNCHANGED <<pl_data_path, pl_stages, sc_pc, sc_calls>>
       ELSE /\ pl_data_path' \in Listings(pl_ned)
            /\ pl_stages' = <<"scrape">>
            /\ pl_pc' = "scrape"
            /\ sc_pc' = "head"
            /\ sc_calls' = 1
            /\ UNCHANGED pl_err
    /\ UNCHANGED <<pl_ned, pl_written, pl_queried>>
    /\ UNCHANGED <<sc_last_etag, sc_last_hash, sc_page, sc_net, sc_csv, sc_saved, sc_err,
                   sc_call>>
    /\ UNCHANGED <<drv_vars, fl_vars, pe_vars, av_vars, aq_vars>>

\* main, lines 150-162, with CatSearch.search: scrape() has returned (or its
\* exception leaves main); a non-empty alert CSV is searched, and every alert i
\* whose query returns rows writes NED_SEARCH_<i>.csv
PipeConeSearch ==
    /\ pl_pc = "scrape"
    /\ sc_pc = "ready"
    /\ IF sc_err # ""
       THEN /\ pl_pc' = "aborted"
            /\ pl_err' = sc_err
            /\ UNCHANGED <<pl_ned, pl_stages, pl_written>>
       ELSE /\ pl_pc' = "atlas"
            /\ UNCHANGED pl_err
            /\ IF sc_csv = None \/ sc_csv = {<<>>}
               THEN UNCHANGED <<pl_ned, pl_stages, pl_written>>
               ELSE \E alert_df \in sc_csv :
                    \E hits \in SUBSET (NedNames \cap 0..(Len(alert_df) - 1)) :
                       /\ pl_ned' = [pl_ned EXCEPT !.files =
                                        [n \in NedNames |->
                                            IF n \in hits THEN "new_ned" ELSE @[n]]]
                       /\ pl_written' = hits
                       /\ pl_stages' = Append(pl_stages, "cone")
    /\ UNCHANGED <<pl_data_path, pl_queried>>
    /\ UNCHANGED <<sc_vars, drv_vars, fl_vars, pe_vars, av_vars, aq_vars>>

\* main, lines 165-166, with Atclean_Query.query: the files of data_path are
\* read in order and their rows processed; a KeyError leaves query and main
PipeAtlas ==
    /\ pl_pc = "atlas"
    /\ LET stop == FirstRaising(pl_ned, pl_data_path)
       IN  /\ pl_queried' = {pl_data_path[i] : i \in 1..(stop - 1)}
           /\ IF stop <= Len(pl_data_path)
              THEN pl_pc' = "aborted" /\ pl_err' = "KeyError"
              ELSE pl_pc' = "plot" /\ UNCHANGED pl_err
    /\ pl_stages' = Append(pl_stages, "atlas")
    /\ UNCHANGED <<pl_ned, pl_data_path, pl_written>>
    /\ UNCHANGED <<sc_vars, drv_vars, fl_vars, pe_vars, av_vars, aq_vars>>

\* main, lines 169-173: txt_finder returns None when it finds no light curve,
\* and plotter iterates over it
PipePlot ==
    /\ pl_pc = "plot"
    /\ pl_stages' = Append(pl_stages, "plot")
    /\ \E found \in BOOLEAN :
          IF found
          THEN pl_pc' = "done" /\ UNCHANGED pl_err
          ELSE pl_pc' = "aborted" /\ pl_err' = "TypeError"
    /\ UNCHANGED <<pl_ned, pl_data_path, pl_written, pl_queried>>
    /\ UNCHANGED <<sc_vars, drv_vars, fl_vars, pe_vars, av_vars, aq_vars>>

\* the alert CSV an earlier run may have left
AlertCsvs == {None} \cup {{parse_table(body)} : body \in Bodies \ {EmptyBody}}

InitPipe ==
    /\ pl_pc = "start"
    /\ pl_ned \in NedDirs
    /\ pl_data_path = <<>>
    /\ pl_stages = <<>>
    /\ pl_written = {}
    /\ pl_queried = {}
    /\ pl_err = ""
    /\ sc_last_etag = None
    /\ sc_last_hash = None
    /\ sc_page \in ScrapePages
    /\ sc_net \in Nets
    /\ sc_csv \in AlertCsvs
    /\ sc_saved = NeverSaved
    /\ sc_pc = "ready"
    /\ sc_err = ""
    /\ sc_calls = 0
    /\ sc_call = NoCall
    /\ DriverIdle /\ FlagsIdle /\ CutIdle /\ AvgIdle /\ QueryIdle

NextPipe ==
    \/ PipeList
    \/ HasPageUpdated
    \/ HasContentHashChanged
    \/ ScrapeFetch
    \/ PipeConeSearch
    \/ PipeAtlas
    \/ PipePlot

SpecPipe == InitPipe /\ [][NextPipe]_vars

(***************************************************************************)
(* Atclean_Query.query and run_script_with_args                            *)
(* (src/Pipeline/atlas_query.py).  An input CSV has the columns query()    *)
(* reads (ra, dec, date, event), or the columns the cone search writes     *)
(* (RA, Dec); a row is the value of its event column, its index is its     *)
(* position counted from 0.  The python interpreter can be started.        *)
(***************************************************************************)
Events == {7, 8}

Scripts == {"download.py", "clean.py"}

InputCsv(cols, rows) == [cols |-> cols, rows |-> rows]

RowSeqs == UNION {[1..n -> Events] : n \in 0..MaxRows}

\* a CSV as CatSearch.search writes it: one galaxy, the columns RA and Dec
NedCsv == InputCsv("ned", <<CHOOSE e \in Events : TRUE>>)

InputCsvs == {InputCsv("full", rows) : rows \in RowSeqs} \cup {NedCsv}

DataPaths == UNION {[1..n -> InputCsvs] : n \in 0..MaxCsvs}

\* the exit status of each script for the galaxies of each event
ExitStatuses == [Scripts \X Events -> {0, 1}]

\* f'neutrino_{event}_galaxy{index}'
GalaxyName(event, index) == <<"neutrino", event, "galaxy", index>>

Invocation(script, name, status) == [script |-> script, name |-> name, status |-> status]

\* run_script_with_args, lines 16-30: subprocess.run(command, check=True); the
\* CalledProcessError of a non-zero exit is caught and logged, so no status
\* makes the call raise
run_script_with_args(script, name, status) ==
    [invocation |-> Invocation(script, name, status), raised |-> ""]

\* data_csv[['ra', 'dec', 'date', 'event']], line 39: KeyError unless the CSV
\* has the four columns
ColumnsRaise(csv) == csv.cols # "full"

\* query, lines 37-39: the next CSV of data_path is read and its rows selected
QueryNextCsv ==
    /\ aq_pc = "csv"
    /\ IF aq_csv_i > Len(aq_data_path)
       THEN /\ aq_pc' = "done"
            /\ UNCHANGED <<aq_csv_i, aq_row_i, aq_err>>
       ELSE IF ColumnsRaise(aq_data_path[aq_csv_i])
       THEN /\ aq_pc' = "raised"
            /\ aq_err' = "KeyError"
            /\ UNCHANGED <<aq_csv_i, aq_row_i>>
       ELSE IF aq_data_path[aq_csv_i].rows = <<>>
       THEN /\ aq_csv_i' = aq_csv_i + 1
            /\ UNCHANGED <<aq_row_i, aq_pc, aq_err>>
       ELSE /\ aq_row_i' = 1
            /\ aq_pc' = "download"
            /\ UNCHANGED <<aq_csv_i, aq_err>>
    /\ UNCHANGED <<aq_data_path, aq_exit, aq_log>>
    /\ UNCHANGED <<drv_vars, fl_vars, pe_vars, av_vars, sc_vars, pl_vars>>

\* query, lines 40-43: download.py is run for the row
QueryDownload ==
    /\ aq_pc = "download"
    /\ LET event == aq_data_path[aq_csv_i].rows[aq_row_i]
           ran == run_script_with_args("download.py", GalaxyName(event, aq_row_i - 1),
                                       aq_exit[<<"download.py", event>>])
       IN  /\ aq_log' = Append(aq_log, ran.invocation)
           /\ IF ran.raised # ""
              THEN aq_pc' = "raised" /\ aq_err' = ran.raised
              ELSE aq_pc' = "clean" /\ UNCHANGED aq_err
    /\ UNCHANGED <<aq_data_path, aq_exit, aq_csv_i, aq_row_i>>
    /\ UNCHANGED <<drv_vars, fl_vars, pe_vars, av_vars, sc_vars, pl_vars>>

\* query, lines 45-47: clean.py is run for the row, and the for goes on to the
\* next row or the next CSV
QueryClean ==
    /\ aq_pc = "clean"
    /\ LET rows == aq_data_path[aq_csv_i].rows
           event == rows[aq_row_i]
           ran == run_script_with_args("clean.py", GalaxyName(event, aq_row_i - 1),
                                       aq_exit[<<"clean.py", event>>])
       IN  /\ aq_log' = Append(aq_log, ran.invocation)
           /\ IF ran.raised # ""
              THEN /\ aq_pc' = "raised" /\ aq_err' = ran.raised
                   /\ UNCHANGED <<aq_csv_i, aq_row_i>>
              ELSE IF aq_row_i < Len(rows)
              THEN /\ aq_row_i' = aq_row_i + 1
                   /\ aq_pc' = "download"
                   /\ UNCHANGED <<aq_csv_i, aq_err>>
              ELSE /\ aq_csv_i' = aq_csv_i + 1
                   /\ aq_row_i' = 0
                   /\ aq_pc' = "csv"
                   /\ UNCHANGED aq_err
    /\ UNCHANGED <<aq_data_path, aq_exit>>
    /\ UNCHANGED <<drv_vars, fl_vars, pe_vars, av_vars, sc_vars, pl_vars>>

\* Atclean_Query.__init__, lines 12-14, and the entry of query
InitQuery ==
    /\ aq_data_path \in DataPaths
    /\ aq_exit \in ExitStatuses
    /\ aq_csv_i = 1
    /\ aq_row_i = 0
    /\ aq_pc = "csv"
    /\ aq_log = <<>>
    /\ aq_err = ""
    /\ DriverIdle /\ FlagsIdle /\ CutIdle /\ AvgIdle /\ ScrapeIdle /\ PipeIdle

NextQuery ==
    \/ QueryNextCsv
    \/ QueryDownload
    \/ QueryClean

SpecQuery == InitQuery /\ [][NextQuery]_vars

(***************************************************************************)
(* Properties.                                                             *)
(***************************************************************************)
\* bit b of a flag is set
HasBit(flag, b) == (flag \div (2 ^ b)) % 2 = 1

\* some two distinct members of a list of flags share a bit
SharesBit(flags) ==
    \E i, j \in 1..Len(flags) :
        i # j /\ \E b \in 0..MaxBit : HasBit(flags[i], b) /\ HasBit(flags[j], b)

\* C1: for every CutList, check_for_flag_duplicates returns true if and only if
\* two distinct member cuts share a flag bit (0x6 and 0x2 collide; pairwise
\* bit-disjoint flags do not).
C1_DuplicatesIffSharedBit ==
    fl_result.called => (fl_result.has <=> SharesBit(fl_flags))

C1_Witness == fl_result.called /\ fl_flags = <<6, 2>> /\ fl_result.has

\* C2: the flag check runs on the fully assembled CutList and a collision is
\* fatal before anything is loaded: a run that has not passed the configuration
\* stage has loaded and saved nothing, and a run that has passed it holds the
\* fully assembled CutList, in which no two cuts share a flag bit.
C2_CollisionFatalBeforeLoad ==
    IF pc \in {"main", "error"}
    THEN stages = <<>> /\ sn = <<>> /\ saved = {}
    ELSE LET asm == AssembleCuts(args, config)
         IN  /\ asm.raised = ""
             /\ cut_list = asm.list
             /\ ~SharesBit(CutFlags(asm.list))

C2_Witness ==
    /\ pc = "error" /\ err = "RuntimeError"
    /\ SharesBit(CutFlags(AssembleCuts(args, config).list))
    /\ stages = <<>>

\* the unit being cleaned has just been saved
UnitSaved == pc = "filters" /\ stages # <<>> /\ stages[Len(stages)] = "Save"

\* the OR of the flags of the per-point cuts whose threshold a Measurement violates
RECURSIVE ViolatedFlags(_, _, _)
ViolatedFlags(cl, m, i) ==
    IF i > Len(cl) THEN 0
    ELSE IF cl[i].cut.column # NoColumn /\ Rejected(cl[i].cut, m[cl[i].cut.column])
    THEN BitOr(cl[i].cut.flag, ViolatedFlags(cl, m, i + 1))
    ELSE ViolatedFlags(cl, m, i + 1)

C5_OutlierClipped ==
    (av_pc = "emitted" /\ Fluxes(av_bin) = <<10, 10, 10, 1000>> /\ av_cfg.Nsigma = 3)
        => /\ 4 \notin av_keep
           /\ av_out.n_clipped = 1
           /\ av_out.n_good = 3
           /\ av_out.flux.num = 10 * av_out.flux.den

\* C6: an emitted bin carries the smallnum_flag bit iff n_good < Ngood_min, and
\* the bad-day flag bit iff its chi-square is computable and above x2_max or
\* n_clipped > Nclip_max; the bits are independent, and a bin whose chi-square
\* is not computable never gets the bad-day bit on account of chi-square.
C6_BinFlagBits ==
    av_pc = "emitted" =>
        LET s == DefaultConfig.averaging
            smallnum == hexstring_to_int(s.smallnum_flag)
            badday == hexstring_to_int(s.flag)
            p == av_cfg.cut.params
            computable == av_out.n_good >= 2
            suspect == computable /\ \E c \in av_out.chi2 : c.num > float(s.x2_max) * c.den
        IN  /\ BitAnd(av_out.flag, smallnum) # 0 <=> av_out.n_good < p.Ngood_min
            /\ BitAnd(av_out.flag, badday) # 0
                  <=> (suspect \/ av_out.n_clipped > p.Nclip_max)
            /\ BitsSubset(av_out.flag, BitOr(smallnum, badday))
            /\ computable <=> av_out.chi2 # NaN

C6_Witness ==
    /\ av_pc = "emitted"
    /\ av_out.n_good = 1 /\ av_out.n_clipped = 0
    /\ av_out.flag = hexstring_to_int(DefaultConfig.averaging.smallnum_flag)

\* C7: a point cut flags a Measurement iff the value of the cut's column is
\* missing, below a set min_value or above a set max_value; a value equal to a
\* bound is accepted, and no other column matters.
C7_RejectedIffOutOfBounds ==
    \A k \in 1..Len(pe_log) :
        pe_log[k].cut \in PointCutNames =>
            LET cut == CutListGet(AllCuts, pe_log[k].cut)
                before == pe_log[k].before[1]
                after == pe_log[k].after[1]
                value == before[cut.column]
                rejected == \/ value = {}
                            \/ cut.min_value # {} /\ value # {}
                                  /\ (CHOOSE v \in value : TRUE)
                                        < (CHOOSE lo \in cut.min_value : TRUE)
                            \/ cut.max_value # {} /\ value # {}
                                  /\ (CHOOSE v \in value : TRUE)
                                        > (CHOOSE hi \in cut.max_value : TRUE)
            IN  /\ rejected => after["flag"] = BitOr(before["flag"], cut.flag)
                /\ ~rejected => after["flag"] = before["flag"]
                /\ (pe_log[k].cut = "uncert_cut" /\ before["duJy"] # NaN
                       /\ (CHOOSE v \in before["duJy"] : TRUE)
                              > float(DefaultConfig.uncert_cut.max_value))
                      => BitAnd(after["flag"],
                                hexstring_to_int(DefaultConfig.uncert_cut.flag)) # 0

C7_Witness ==
    \E k \in 1..Len(pe_log) :
        /\ pe_log[k].cut = "uncert_cut"
        /\ pe_log[k].before[1]["duJy"] = {25}
        /\ pe_log[k].before[1]["chi/N"] = NaN
        /\ pe_log[k].before[1]["flag"] = 0
        /\ pe_log[k].after[1]["flag"] = 2

\* the stages the spec's state machine makes a unit pass through
RECURSIVE PointCutStages(_, _)
PointCutStages(cl, i) ==
    IF i > Len(cl) THEN <<>>
    ELSE (IF cl[i].cut.column # NoColumn THEN <<cl[i].name>> ELSE <<>>)
             \o PointCutStages(cl, i + 1)

ExpectedStages ==
    <<"Load">>
        \o (IF args.uncert_est THEN <<"uncert_est">> ELSE <<>>)
        \o PointCutStages(cut_list, 1)
        \o (IF CutListHas(cut_list, "controls_cut")
                  /\ float(config.download.num_controls) > 0
            THEN <<"controls_cut">> ELSE <<>>)
        \o (IF CutListHas(cut_list, "badday_cut") THEN <<"badday_cut">> ELSE <<>>)
        \o <<"Save">>

C10_ControlsCutOneFlag ==
    \A k \in 1..Len(pe_log) :
        pe_log[k].cut = "controls_cut" =>
            LET s == DefaultConfig.controls_cut
                before == pe_log[k].before[1]["flag"]
                after == pe_log[k].after[1]["flag"]
                ctl == pe_ctl[1]
                triggered == \/ ctl.x2 > float(s.x2_max)
                             \/ ctl.stn > float(s.stn_max)
                             \/ ctl.Nclip > float(s.Nclip_max)
                             \/ ctl.Ngood < float(s.Ngood_min)
                             \/ \E c \in DOMAIN ctl.flags :
                                   \E b \in 0..MaxBit :
                                       /\ HasBit(ctl.flags[c], b)
                                       /\ HasBit(hexstring_to_int(s.questionable_flag), b)
            IN  after = IF triggered THEN BitOr(before, hexstring_to_int(s.bad_flag))
                        ELSE before

C10_Witness ==
    \E k \in 1..Len(pe_log) :
        /\ pe_log[k].cut = "controls_cut"
        /\ pe_ctl[1].x2 = 4 /\ pe_ctl[1].stn = 1 /\ pe_ctl[1].Nclip = 0
        /\ pe_ctl[1].Ngood = 4 /\ pe_ctl[1].flags = <<0, 0>>
        /\ pe_log[k].before[1]["flag"] = 2
        /\ pe_log[k].after[1]["flag"] = 10

\* the uncert_est entry of the CutList assembled from a command line and a
\* configuration: present, without a flag of its own, the reserved bit held as
\* the parameter uncert_cut_flag, and of no effect on the flag check
UncertEstEntry(a, c) ==
    LET asm == AssembleCuts(a, c)
        entry == CutListGet(asm.list, "uncert_est")
    IN  asm.raised = "" =>
            /\ asm.list # <<>> /\ asm.list[1].name = "uncert_est"
            /\ entry.flag = NoFlag
            /\ entry.params.uncert_cut_flag = hexstring_to_int(c.uncert_cut.flag)
            /\ check_for_flag_duplicates(CutFlags(asm.list)).has
                  = check_for_flag_duplicates(CutFlags(Tail(asm.list))).has

UncertEstEntryAlways == \A a \in Args, c \in Configs : UncertEstEntry(a, c)

\* C11: the uncertainty pre-pass changes no flag (only flux_err may change),
\* whether or not it rescales; its CutList entry, always added, holds its
\* reserved bit as the parameter uncert_cut_flag only and adds no bit to the
\* flag check.
C11_UncertEstSetsNoFlag ==
    /\ UncertEstEntryAlways
    /\ \A k \in 1..Len(pe_log) :
          pe_log[k].cut = "uncert_est" =>
              /\ Len(pe_log[k].after) = Len(pe_log[k].before)
              /\ \A i \in 1..Len(pe_log[k].before) :
                    \A col \in {"MJD", "uJy", "chi/N", "flag"} :
                        pe_log[k].after[i][col] = pe_log[k].before[i][col]

C11_Witness ==
    /\ Len(pe_log) = 2
    /\ pe_log[1].cut = "uncert_cut"
    /\ pe_log[2].cut = "uncert_est"
    /\ pe_log[2].before[1]["flag"] = 2 /\ pe_log[2].before[1]["duJy"] = {25}
    /\ pe_log[2].after[1]["flag"] = 2 /\ pe_log[2].after[1]["duJy"] = {50}

\* the flag strings parse_config_cuts is asked to read: those of the uncert_est
\* entry, of every enabled default cut and of every custom section with a flag
FlagStringsRead(a, c) ==
    {c.uncert_cut.flag}
        \cup (IF a.x2_cut THEN {c.x2_cut.flag} ELSE {})
        \cup (IF a.controls_cut
              THEN {c.controls_cut.bad_flag, c.controls_cut.questionable_flag,
                    c.controls_cut.x2_flag, c.controls_cut.stn_flag,
                    c.controls_cut.Nclip_flag, c.controls_cut.Ngood_flag}
              ELSE {})
        \cup (IF a.averaging
              THEN {c.averaging.flag, c.averaging.ixclip_flag, c.averaging.smallnum_flag}
              ELSE {})
        \cup (IF a.custom_cuts
              THEN LET custom == find_config_custom_cuts(c)
                   IN  {custom[i]["flag"] :
                           i \in {j \in 1..Len(custom) : "flag" \in DOMAIN custom[j]}}
              ELSE {})

\* C12: an unparsable hexadecimal flag string in a cut section, default or
\* custom, is fatal: parse_config_cuts never returns a CutList when one of the
\* flag strings it reads does not parse.
C12_BadHexFatal ==
    pc \notin {"main", "error"} =>
        \A text \in FlagStringsRead(args, config) : hexstring_to_int(text) # ValueError

\* a custom section lacks a required key
LacksRequiredKey(settings) == {"column", "flag"} \ DOMAIN settings # {}

\* a custom section has its four keys, and their texts parse
WellFormed(settings) ==
    /\ {"column", "flag", "min_value", "max_value"} \subseteq DOMAIN settings
    /\ hexstring_to_int(settings["flag"]) # ValueError
    /\ \A k \in {"min_value", "max_value"} : settings[k] = "None" \/ IsNumeral(settings[k])

\* the configuration without the custom sections that lack a required key
WithoutLacking(c) ==
    LET kept == SelectSeq(c.custom, LAMBDA settings : ~LacksRequiredKey(settings))
    IN  [c EXCEPT !.custom = kept,
                  !.keys = SubSeq(c.keys, 1, Len(c.keys) - Len(c.custom))
                               \o SubSeq(CustomKeys, 1, Len(kept))]

\* the default cuts the command line enables
EnabledDefaultCuts(a) ==
    {"uncert_est"}
        \cup (IF a.uncert_cut THEN {"uncert_cut"} ELSE {})
        \cup (IF a.x2_cut THEN {"x2_cut"} ELSE {})
        \cup (IF a.controls_cut THEN {"controls_cut"} ELSE {})
        \cup (IF a.averaging THEN {"badday_cut"} ELSE {})

\* C13: a custom section lacking column or flag is skipped and is not fatal:
\* the run fails only where it fails without that section too, the section adds
\* no cut, and every enabled default cut and every well-formed custom cut is in
\* the CutList.
C13_MissingKeySkipped ==
    LET custom == find_config_custom_cuts(config)
    IN  (pc # "main" /\ args.custom_cuts
            /\ \E i \in 1..Len(custom) : LacksRequiredKey(custom[i]))
        => /\ (pc = "error" /\ ~(Len(args.tnsnames) > 1 /\ args.mjd0 # None))
                  => err = parse_config_cuts(args, WithoutLacking(config)).raised
           /\ pc # "error" =>
                  /\ \A i \in 1..Len(custom) :
                        /\ LacksRequiredKey(custom[i])
                              => ~CutListHas(cut_list, CustomCutNames[i])
                        /\ WellFormed(custom[i])
                              => /\ CutListHas(cut_list, CustomCutNames[i])
                                 /\ CutListGet(cut_list, CustomCutNames[i]).column
                                       = custom[i]["column"]
                                 /\ CutListGet(cut_list, CustomCutNames[i]).flag
                                       = hexstring_to_int(custom[i]["flag"])
                  /\ \A name \in EnabledDefaultCuts(args) : CutListHas(cut_list, name)

C13_Witness ==
    /\ pc = "loop"
    /\ args.custom_cuts /\ args.uncert_cut /\ args.x2_cut
    /\ config.custom = <<SkyNoFlag, SkyBoth>>
    /\ CutListNames(cut_list) = {"uncert_est", "uncert_cut", "x2_cut", "custom_cut_1"}

\* the optional bound of a custom section as the spec reads it: an omitted key
\* is the literal "None"
BoundOrNone(settings, k) ==
    IF k \in DOMAIN settings THEN CustomBound(settings[k]) ELSE None

\* C14: min_value and max_value are optional: a custom section with column and
\* flag that omits a bound is added to the CutList with that bound unset, as if
\* "None" had been written.
C14_BoundsOptional ==
    LET custom == find_config_custom_cuts(config)
    IN  (pc \notin {"main", "error"} /\ args.custom_cuts)
        => \A i \in 1..Len(custom) :
              (/\ {"column", "flag"} \subseteq DOMAIN custom[i]
               /\ hexstring_to_int(custom[i]["flag"]) # ValueError)
              => /\ CutListHas(cut_list, CustomCutNames[i])
                 /\ CutListGet(cut_list, CustomCutNames[i]).min_value
                       = BoundOrNone(custom[i], "min_value")
                 /\ CutListGet(cut_list, CustomCutNames[i]).max_value
                       = BoundOrNone(custom[i], "max_value")

\* C15: with averaging requested the bad-day cut's mjd_bin_size is the bin size
\* of the command line if one was given and the configuration's otherwise, and
\* in both cases the CutList is built without error.
C15_BinSizeResolved ==
    (/\ pc # "main"
     /\ args.averaging
     /\ ~(Len(args.tnsnames) > 1 /\ args.mjd0 # None)
     /\ parse_config_cuts([args EXCEPT !.mjd_bin_size = None], config).raised = "")
    => /\ pc # "error"
       /\ CutListHas(cut_list, "badday_cut")
       /\ LET size == CutListGet(cut_list, "badday_cut").params.mjd_bin_size
          IN  IF args.mjd_bin_size = None
              THEN size = float(config.averaging.mjd_bin_size)
              ELSE \E given \in args.mjd_bin_size : size = given

\* the cuts that write flags: the point cuts and the controls cut
FlagCutNames == PointCutNames \cup {"controls_cut"}

\* the named cut of the CutList applied to a light curve
ApplyNamed(name, ctl, lc) ==
    IF name = "controls_cut"
    THEN apply_controls_cut(CutListGet(AllCuts, name), ctl, lc)
    ELSE apply_cut(CutListGet(AllCuts, name), lc)

FlagsOf(lc) == [i \in 1..Len(lc) |-> lc[i]["flag"]]

\* C16: applying a Cut is idempotent: a second application of the same Cut
\* leaves every flag as the first application left it.
C16_CutIdempotent ==
    \A k \in 1..(Len(pe_log) - 1) :
        (pe_log[k].cut \in FlagCutNames /\ pe_log[k + 1].cut = pe_log[k].cut)
            => FlagsOf(pe_log[k + 1].after) = FlagsOf(pe_log[k].after)

C16_Witness ==
    /\ Len(pe_log) = 2
    /\ pe_log[1].cut = "x2_cut" /\ pe_log[2].cut = "x2_cut"
    /\ pe_log[1].before[1]["flag"] = 0
    /\ pe_log[1].after[1]["flag"] = 4
    /\ pe_log[2].after[1]["flag"] = 4

\* C17: flag accumulation is order-independent: cut A then cut B leaves the
\* flags that B then A leaves.
C17_CutsCommute ==
    (Len(pe_log) = 2 /\ pe_log[1].cut \in FlagCutNames /\ pe_log[2].cut \in FlagCutNames)
        => FlagsOf(pe_lc)
              = FlagsOf(ApplyNamed(pe_log[1].cut, pe_ctl,
                                   ApplyNamed(pe_log[2].cut, pe_ctl, pe_log[1].before)))

C17_Witness ==
    /\ Len(pe_log) = 2
    /\ pe_log[1].cut = "x2_cut" /\ pe_log[2].cut = "uncert_cut"
    /\ pe_log[1].after[1]["flag"] = 4
    /\ pe_lc[1]["flag"] = 6

\* C18: the sigma clipping of a bin always terminates, because an iteration
\* rejects nothing or the cap is reached, and then n_clipped + n_good is the
\* number of points selected into the bin.
C18_ClippingTerminates ==
    /\ <>(av_pc = "emitted")
    /\ [](av_pc = "emitted" =>
            /\ av_out.n_clipped + av_out.n_good = Len(av_bin)
            /\ av_out.n_good = Cardinality(av_keep)
            /\ \/ ClipRejects(av_bin, av_keep, av_cfg.Nsigma, av_cfg.ddof) = {}
               \/ av_iter >= av_cfg.maxiter)

C18_Witness ==
    /\ av_pc = "emitted"
    /\ Fluxes(av_bin) = <<10, 10, 10, 1000>>
    /\ av_cfg.Nsigma = 1 /\ av_cfg.maxiter = 10
    /\ av_iter = 1
    /\ av_out.n_clipped = 1 /\ av_out.n_good = 3

\* C19: in a scrape() call that finds an ETag other than the one the page had
\* when alert data was last saved (or when none was saved yet) and whose fetch
\* of the page succeeds, the table is parsed and saved, whatever earlier calls
\* saw; a call that finds the ETag of the last save saves nothing.
C19_NewETagIsSaved ==
    (sc_pc = "ready" /\ sc_calls > 0 /\ sc_page.etag # None)
    => LET changed == ~sc_call.before.any \/ sc_page.etag # sc_call.before.etag
       IN  /\ (changed /\ sc_net.head /\ sc_net.get /\ sc_page.body # EmptyBody)
                  => /\ sc_call.saved
                     /\ sc_csv = {parse_table(sc_page.body)}
           /\ ~changed => ~sc_call.saved

\* the place of a stage in the order of the pipeline
StageRank == ("scrape" :> 1) @@ ("cone" :> 2) @@ ("atlas" :> 3) @@ ("plot" :> 4)

\* C20: in one run of main() the stages run in the order alert scrape, cone
\* search, ATLAS query, plot compilation, and the ATLAS query processes every
\* CSV the cone search of that run wrote.
C20_AtlasSeesConeOutput ==
    /\ \A i, j \in 1..Len(pl_stages) :
          i < j => StageRank[pl_stages[i]] < StageRank[pl_stages[j]]
    /\ (\E i \in 1..Len(pl_stages) : pl_stages[i] = "atlas") => pl_written \subseteq pl_queried

\* the invocations the rows of one CSV call for: download.py then clean.py for
\* each row, in row order
RECURSIVE RowInvocations(_, _)
RowInvocations(rows, i) ==
    IF i > Len(rows) THEN <<>>
    ELSE <<[script |-> "download.py", name |-> GalaxyName(rows[i], i - 1)],
           [script |-> "clean.py", name |-> GalaxyName(rows[i], i - 1)]>>
             \o RowInvocations(rows, i + 1)

RECURSIVE ExpectedInvocations(_, _)
ExpectedInvocations(data_path, k) ==
    IF k > Len(data_path) THEN <<>>
    ELSE RowInvocations(data_path[k].rows, 1) \o ExpectedInvocations(data_path, k + 1)

\* the invocations made, without their exit status
Invoked(log) == [i \in 1..Len(log) |-> [script |-> log[i].script, name |-> log[i].name]]

\* C21: query() runs, for every row of every input CSV and in row order,
\* download.py once and then clean.py once for the same name; a non-zero exit
\* of a script is caught and stops neither clean.py for that row nor the
\* scripts of a later row.
C21_EveryRowDownloadedThenCleaned ==
    /\ aq_pc # "raised"
    /\ aq_pc = "done" => Invoked(aq_log) = ExpectedInvocations(aq_data_path, 1)

\* the same for input CSVs that all have the columns query() reads
FullCsvsAllProcessed ==
    (\A k \in 1..Len(aq_data_path) : ~ColumnsRaise(aq_data_path[k]))
        => C21_EveryRowDownloadedThenCleaned

====
